---- MODULE Spec2Model ----
(***************************************************************************)
(* Model of the two command-line tools of epl-tools-cli:                   *)
(*   csv_diferencial-v1.0.py  the differential filter                      *)
(*   generate-magnets.py      the magnet generator / qBittorrent pusher    *)
(* A Python str is a sequence of one-character strings; None is a value    *)
(* that is no str.                                                         *)
(***************************************************************************)
EXTENDS Integers, Sequences, FiniteSets, TLC

(* ---------------------------------------------------------------- bounds *)
MaxSmallRows == 2
MaxBigRows == 3
MaxCsvRows == 2
MaxMagnets == 12
MaxBatch == 3
ExampleTotal == 1000

(* ------------------------------------------------- Python str operations *)
None == <<"<None>">>

WS == {" ", "\t"}
Digits == {"0", "1", "2", "3", "4", "5", "6", "7", "8", "9"}

DigitVal(c) ==
  CASE c = "0" -> 0 [] c = "1" -> 1 [] c = "2" -> 2 [] c = "3" -> 3
    [] c = "4" -> 4 [] c = "5" -> 5 [] c = "6" -> 6 [] c = "7" -> 7
    [] c = "8" -> 8 [] c = "9" -> 9

RECURSIVE lstrip(_)
lstrip(s) == IF s # <<>> /\ Head(s) \in WS THEN lstrip(Tail(s)) ELSE s

RECURSIVE rstrip(_)
rstrip(s) ==
  IF s # <<>> /\ s[Len(s)] \in WS THEN rstrip(SubSeq(s, 1, Len(s) - 1)) ELSE s

strip(s) == rstrip(lstrip(s))

LowerChar(c) ==
  CASE c = "A" -> "a" [] c = "C" -> "c" [] c = "E" -> "e" [] c = "F" -> "f"
    [] c = "G" -> "g" [] c = "I" -> "i" [] c = "N" -> "n" [] c = "P" -> "p"
    [] c = "S" -> "s" [] c = "Ñ" -> "ñ" [] c = "É" -> "é" [] c = "Á" -> "á"
    [] OTHER -> c

lower(s) == [i \in 1..Len(s) |-> LowerChar(s[i])]

(* sub in s, for two str *)
Contains(s, sub) ==
  \E i \in 0..(Len(s) - Len(sub)) : SubSeq(s, i + 1, i + Len(sub)) = sub

RECURSIVE split(_, _)
split(s, sep) ==
  IF \E i \in 1..Len(s) : s[i] = sep
  THEN LET i == CHOOSE j \in 1..Len(s) :
                  s[j] = sep /\ \A k \in 1..(j - 1) : s[k] # sep
       IN <<SubSeq(s, 1, i - 1)>> \o split(SubSeq(s, i + 1, Len(s)), sep)
  ELSE <<s>>

(* s.split("=", 1)[1] *)
AfterFirst(s, sep) ==
  LET i == CHOOSE j \in 1..Len(s) :
             s[j] = sep /\ \A k \in 1..(j - 1) : s[k] # sep
  IN SubSeq(s, i + 1, Len(s))

startswith(s, p) == Len(s) >= Len(p) /\ SubSeq(s, 1, Len(p)) = p

RECURSIVE DigitsValue(_)
DigitsValue(s) ==
  IF s = <<>> THEN 0
  ELSE 10 * DigitsValue(SubSeq(s, 1, Len(s) - 1)) + DigitVal(s[Len(s)])

AllDigits(s) == s # <<>> /\ \A i \in 1..Len(s) : s[i] \in Digits

Unsigned(s) == IF s # <<>> /\ Head(s) \in {"+", "-"} THEN Tail(s) ELSE s
Sign(s) == IF s # <<>> /\ Head(s) = "-" THEN -1 ELSE 1

(* int(s): ok, or ValueError; None has no .strip(), raised before int() *)
IntOk(s) == AllDigits(Unsigned(strip(s)))
IntValue(s) == Sign(strip(s)) * DigitsValue(Unsigned(strip(s)))

(* float(s) on the decimal forms d+, d+., d+.d+, .d+ and on inf / nan *)
FloatIsInf(s) == lower(Unsigned(strip(s))) \in {<<"i", "n", "f">>, <<"i", "n", "f", "i", "n", "i", "t", "y">>}
FloatIsNan(s) == lower(Unsigned(strip(s))) = <<"n", "a", "n">>
FloatIsDecimal(s) ==
  LET u == Unsigned(strip(s))
      parts == split(u, ".")
  IN \/ AllDigits(u)
     \/ /\ Len(parts) = 2
        /\ parts[1] = <<>> \/ AllDigits(parts[1])
        /\ parts[2] = <<>> \/ AllDigits(parts[2])
        /\ parts[1] # <<>> \/ parts[2] # <<>>
(* int(float(s)) of a decimal form: truncation toward zero *)
FloatTrunc(s) ==
  LET u == Unsigned(strip(s))
  IN Sign(strip(s)) * DigitsValue(split(u, ".")[1])


Range(s) == {s[i] : i \in 1..Len(s)}

(* dict.get(k, default) *)
Get(d, k, default) == IF k \in DOMAIN d THEN d[k] ELSE default

(* One row of csv.DictReader: the values zipped to the field names; a short  *)
(* row's missing values are None (restval), a long row's extra values are    *)
(* the list under the key None (restkey).                                    *)
DictRow(names, values) ==
  [k \in Range(names) \cup (IF Len(values) > Len(names) THEN {None} ELSE {}) |->
     IF k = None
     THEN SubSeq(values, Len(names) + 1, Len(values))
     ELSE LET i == CHOOSE j \in 1..Len(names) :
                     names[j] = k /\ \A m \in (j + 1)..Len(names) : names[m] # k
          IN IF i <= Len(values) THEN values[i] ELSE None]

(* reader.fieldnames = [name.strip() for name in reader.fieldnames] *)
TrimNames(names) == [i \in 1..Len(names) |-> strip(names[i])]

(* ============================================ csv_diferencial-v1.0.py === *)
DEFAULT_LANGUAGES == << <<"E", "s", "p", "a", "ñ", "o", "l">>, <<"I", "n", "g", "l", "é", "s">> >>

LANGUAGE_MAP ==
  { << <<"a", "l", "e", "m", "á", "n">>, <<"A", "l", "e", "m", "á", "n">> >>, << <<"a", "l", "e", "m", "a", "n">>, <<"A", "l", "e", "m", "á", "n">> >>, << <<"A", "l", "e", "m", "a", "n">>, <<"A", "l", "e", "m", "á", "n">> >>,
    << <<"c", "a", "t", "a", "l", "á", "n">>, <<"C", "a", "t", "a", "l", "á", "n">> >>, << <<"c", "a", "t", "a", "l", "a", "n">>, <<"C", "a", "t", "a", "l", "á", "n">> >>, << <<"C", "a", "t", "a", "l", "a", "n">>, <<"C", "a", "t", "a", "l", "á", "n">> >>,
    << <<"e", "s", "p", "a", "ñ", "o", "l">>, <<"E", "s", "p", "a", "ñ", "o", "l">> >>, << <<"e", "s", "p", "a", "n", "o", "l">>, <<"E", "s", "p", "a", "ñ", "o", "l">> >>, << <<"E", "s", "p", "a", "n", "o", "l">>, <<"E", "s", "p", "a", "ñ", "o", "l">> >>,
    << <<"e", "s", "p", "e", "r", "a", "n", "t", "o">>, <<"E", "s", "p", "e", "r", "a", "n", "t", "o">> >>,
    << <<"e", "u", "s", "k", "e", "r", "a">>, <<"E", "u", "s", "k", "e", "r", "a">> >>,
    << <<"f", "r", "a", "n", "c", "é", "s">>, <<"F", "r", "a", "n", "c", "é", "s">> >>, << <<"f", "r", "a", "n", "c", "e", "s">>, <<"F", "r", "a", "n", "c", "é", "s">> >>, << <<"F", "r", "a", "n", "c", "e", "s">>, <<"F", "r", "a", "n", "c", "é", "s">> >>,
    << <<"g", "a", "l", "l", "e", "g", "o">>, <<"G", "a", "l", "l", "e", "g", "o">> >>,
    << <<"i", "n", "g", "l", "é", "s">>, <<"I", "n", "g", "l", "é", "s">> >>, << <<"i", "n", "g", "l", "e", "s">>, <<"I", "n", "g", "l", "é", "s">> >>, << <<"I", "n", "g", "l", "e", "s">>, <<"I", "n", "g", "l", "é", "s">> >>,
    << <<"i", "t", "a", "l", "i", "a", "n", "o">>, <<"I", "t", "a", "l", "i", "a", "n", "o">> >>,
    << <<"p", "o", "r", "t", "u", "g", "u", "é", "s">>, <<"P", "o", "r", "t", "u", "g", "u", "é", "s">> >>, << <<"p", "o", "r", "t", "u", "g", "u", "e", "s">>, <<"P", "o", "r", "t", "u", "g", "u", "é", "s">> >>,
    << <<"P", "o", "r", "t", "u", "g", "u", "e", "s">>, <<"P", "o", "r", "t", "u", "g", "u", "é", "s">> >> }

(* the name trimmed but not looked up in LANGUAGE_MAP *)
CanonicalUnmapped(lang) == strip(lang)

(* LANGUAGE_MAP.get(lang.strip(), lang.strip()) *)
Canonical(lang) ==
  LET k == strip(lang)
  IN IF \E p \in LANGUAGE_MAP : p[1] = k
     THEN (CHOOSE p \in LANGUAGE_MAP : p[1] = k)[2]
     ELSE k

(* quiet_mode = "-q" in sys.argv *)
QuietMode(args) == <<"-", "q">> \in Range(args)

(* log_enabled = "-l" in sys.argv or "--log" in sys.argv *)
LogEnabled(args) == <<"-", "l">> \in Range(args) \/ <<"-", "-", "l", "o", "g">> \in Range(args)

(* The loop over sys.argv[3:]: the last argument starting with --languages   *)
(* sets lang_arg, to the text after its first "=", or to None without "=".   *)
RECURSIVE LangArg(_)
LangArg(args) ==
  IF args = <<>> THEN None
  ELSE LET arg == args[Len(args)]
       IN IF startswith(arg, <<"-", "-", "l", "a", "n", "g", "u", "a", "g", "e", "s">>)
          THEN IF "=" \in Range(arg) THEN AfterFirst(arg, "=") ELSE None
          ELSE LangArg(SubSeq(args, 1, Len(args) - 1))

(* language_filter; the empty list stands for None as well (both are falsy) *)
LanguageFilter(args) ==
  LET lang_arg == LangArg(args)
  IN IF lang_arg # None /\ lang_arg # <<>>
     THEN LET parts == split(lang_arg, ",")
          IN [i \in 1..Len(parts) |-> Canonical(parts[i])]
     ELSE DEFAULT_LANGUAGES

(* ---- Step 1: one reference row ---- *)
(* "added", "skipped" (ValueError, KeyError: continue), or the exception the *)
(* except clause does not catch                                              *)
BuildOutcome(r) ==
  IF <<"#", "e", "p", "g", "_", "i", "d">> \notin DOMAIN r THEN "skipped"
  ELSE IF r[<<"#", "e", "p", "g", "_", "i", "d">>] = None THEN "AttributeError"
  ELSE IF FloatIsInf(r[<<"#", "e", "p", "g", "_", "i", "d">>]) THEN "OverflowError"
  ELSE IF FloatIsNan(r[<<"#", "e", "p", "g", "_", "i", "d">>]) \/ ~FloatIsDecimal(r[<<"#", "e", "p", "g", "_", "i", "d">>]) THEN "skipped"
  ELSE IF <<"#", "v", "e", "r", "s", "i", "o", "n">> \notin DOMAIN r THEN "skipped"
  ELSE IF r[<<"#", "v", "e", "r", "s", "i", "o", "n">>] = None THEN "AttributeError"
  ELSE "added"

ReferenceKey(r) == <<FloatTrunc(r[<<"#", "e", "p", "g", "_", "i", "d">>]), strip(r[<<"#", "v", "e", "r", "s", "i", "o", "n">>])>>

(* ---- Step 2: one large-dataset row ---- *)
OFFSET == 10000000
PROGRESS_EVERY == 1000

(* row.get('Idioma', '').strip() of a None value raises *)
LanguageRaises(r, lf) == lf # <<>> /\ Get(r, <<"I", "d", "i", "o", "m", "a">>, <<>>) = None

(* the language compared without .strip() *)
LanguageSkipsUntrimmed(r, lf) ==
  lf # <<>> /\ Get(r, <<"I", "d", "i", "o", "m", "a">>, <<>>) \notin Range(lf)

LanguageSkips(r, lf) ==
  lf # <<>> /\ strip(Get(r, <<"I", "d", "i", "o", "m", "a">>, <<>>)) \notin Range(lf)

KeyRaises(r) ==
  \/ <<"E", "P", "L", " ", "I", "d">> \notin DOMAIN r
  \/ r[<<"E", "P", "L", " ", "I", "d">>] = None
  \/ ~IntOk(r[<<"E", "P", "L", " ", "I", "d">>])
  \/ <<"R", "e", "v", "i", "s", "i", "ó", "n">> \notin DOMAIN r
  \/ r[<<"R", "e", "v", "i", "s", "i", "ó", "n">>] = None

(* the key without the identifier offset *)
BigKeyNoOffset(r) == <<IntValue(r[<<"E", "P", "L", " ", "I", "d">>]), strip(r[<<"R", "e", "v", "i", "s", "i", "ó", "n">>])>>

BigKey(r) == <<OFFSET + IntValue(r[<<"E", "P", "L", " ", "I", "d">>]), strip(r[<<"R", "e", "v", "i", "s", "i", "ó", "n">>])>>

InReference(key, set) == key \in set

(* what the try block does with the row *)
Outcome(r, lf, set) ==
  IF LanguageRaises(r, lf) THEN "exception"
  ELSE IF LanguageSkips(r, lf) THEN "language"
  ELSE IF KeyRaises(r) THEN "exception"
  ELSE IF InReference(BigKey(r), set) THEN "member"
  ELSE "kept"

(* the except branch dropping the row *)
WrittenOnlyKept(outcome) == outcome = "kept"

(* the except branch keeps the row, as the not-in-set branch does *)
Written(outcome) == outcome \in {"kept", "exception"}

(* filtered_row, as DictWriter(fieldnames, QUOTE_ALL) writes it: one value    *)
(* per field name, None written as the empty string                          *)
WriteRow(names, r) ==
  LET filtered_row == [k \in {k \in DOMAIN r : k \in Range(names)} |-> r[k]]
  IN [i \in 1..Len(names) |->
        IF Get(filtered_row, names[i], <<>>) = None
        THEN <<>> ELSE Get(filtered_row, names[i], <<>>)]

Msg(kind, n, kept, skipped) ==
  [kind |-> kind, n |-> n, kept |-> kept, skipped |-> skipped]

(* log(msg): nothing in quiet mode; else the console, and the log file if -l *)
LogConsole(quiet, out, msg) == IF quiet THEN out ELSE Append(out, msg)
LogFile(quiet, enabled, out, msg) ==
  IF quiet \/ ~enabled THEN out ELSE Append(out, msg)


(* ------------------------------------------------------------- inputs --- *)
(* sys.argv[3:] *)
DiffArgvs ==
  { <<>>,
    << <<"-", "q">> >>,
    << <<"-", "l">> >>,
    << <<"-", "-", "l", "a", "n", "g", "u", "a", "g", "e", "s", "=", "e", "s", "p", "a", "n", "o", "l", ",", " ", "F", "r", "a", "n", "c", "e", "s", " ">> >>,
    << <<"-", "q">>, <<"-", "-", "l", "a", "n", "g", "u", "a", "g", "e", "s", "=", "F", "r", "a", "n", "c", "é", "s">> >>,
    << <<"-", "-", "l", "a", "n", "g", "u", "a", "g", "e", "s">>, <<"F", "r", "a", "n", "c", "é", "s">> >> }

(* the header line of the reference file, and data lines of it *)
SmallHeaders == { << <<"#", "e", "p", "g", "_", "i", "d">>, <<" ", "#", "v", "e", "r", "s", "i", "o", "n", " ">> >>, << <<"#", "e", "p", "g", "_", "i", "d">> >> }
SmallRowKinds ==
  { << <<"1", "0", "0", "0", "0", "0", "0", "1">>, <<"3">> >>,
    << <<" ", "1", "0", "0", "0", "0", "0", "0", "1", ".", "0", " ">>, <<" ", "4", " ">> >>,
    << <<"a", "b", "c">>, <<"3">> >>,
    << <<"n", "a", "n">>, <<"3">> >>,
    << <<"i", "n", "f">>, <<"3">> >>,
    << <<"1", "0", "0", "0", "0", "0", "0", "1">> >> }

(* the header line of the large file, and data lines of it *)
BigHeaders ==
  { << <<"E", "P", "L", " ", "I", "d">>, <<" ", "R", "e", "v", "i", "s", "i", "ó", "n">>, <<"I", "d", "i", "o", "m", "a", " ">> >>,
    << <<"E", "P", "L", " ", "I", "d">>, <<"R", "e", "v", "i", "s", "i", "ó", "n">> >> }
BigRowKinds ==
  { << <<" ", "1", " ">>, <<" ", "3", " ">>, <<" ", "E", "s", "p", "a", "ñ", "o", "l", " ">> >>,
    << <<"1">>, <<"4">>, <<"I", "n", "g", "l", "é", "s">> >>,
    << <<"2">>, <<"3">>, <<"F", "r", "a", "n", "c", "é", "s">> >>,
    << <<"a", "b", "c">>, <<"3">>, <<"E", "s", "p", "a", "ñ", "o", "l">> >>,
    << <<"1", ".", "0">>, <<"3">>, <<"F", "r", "a", "n", "c", "é", "s">> >>,
    << <<"1">> >>,
    << <<"1">>, <<"3">> >>,
    << <<"1">>, <<"3">>, <<"I", "n", "g", "l", "é", "s">>, <<"x">> >> }

(* -------------------------------------------------------------- state --- *)
VARIABLES
  argv,             \* sys.argv[3:]
  pc,               \* where the script is: start, build, filter, done, crashed, exited
  quiet_mode,
  log_enabled,
  language_filter,
  fieldnames,       \* reader.fieldnames of the file being read
  lines_read,       \* data lines the current reader has returned
  row,              \* the loop variable of both loops
  mis_libros_set,
  big_rows,         \* the large file's data lines read so far
  output_rows,      \* data rows written to the output file
  processed_count,
  kept_count,
  skipped_count,
  console,          \* lines printed
  log_lines         \* lines appended to the log file

diffvars ==
  <<argv, pc, quiet_mode, log_enabled, language_filter, fieldnames, lines_read,
    row, mis_libros_set, big_rows, output_rows, processed_count, kept_count,
    skipped_count, console, log_lines>>


(* the script's variables before it runs, and after the process has ended *)
DiffNoMemory ==
  /\ quiet_mode = FALSE
  /\ log_enabled = FALSE
  /\ language_filter = <<>>
  /\ fieldnames = <<>>
  /\ lines_read = 0
  /\ row = <<>>
  /\ mis_libros_set = {}
  /\ big_rows = <<>>
  /\ processed_count = 0
  /\ kept_count = 0
  /\ skipped_count = 0

DiffInit ==
  /\ argv \in DiffArgvs
  /\ pc = "start"
  /\ DiffNoMemory
  /\ output_rows = <<>>
  /\ console = <<>>
  /\ log_lines = <<>>

(* lines 67-109: the flags, language_filter, the first log lines, and the     *)
(* reference file opened with its header trimmed                              *)
DiffStart ==
  /\ pc = "start"
  /\ quiet_mode' = QuietMode(argv)
  /\ log_enabled' = LogEnabled(argv)
  /\ language_filter' = LanguageFilter(argv)
  /\ LET q == QuietMode(argv)
         l == LogEnabled(argv)
         c1 == LogConsole(q, console, Msg("Command", 0, 0, 0))
         f1 == LogFile(q, l, log_lines, Msg("Command", 0, 0, 0))
     IN IF LanguageFilter(argv) # <<>>
        THEN /\ console' = LogConsole(q, c1, Msg("Filtering", 0, 0, 0))
             /\ log_lines' = LogFile(q, l, f1, Msg("Filtering", 0, 0, 0))
        ELSE /\ console' = c1
             /\ log_lines' = f1
  /\ \E header \in SmallHeaders : fieldnames' = TrimNames(header)
  /\ lines_read' = 0
  /\ pc' = "build"
  /\ UNCHANGED <<argv, row, mis_libros_set, big_rows, output_rows,
                 processed_count, kept_count, skipped_count>>

(* the process ends: its memory is gone, the files and the console stay *)
DiffExit(how) ==
  /\ pc' = how
  /\ quiet_mode' = FALSE
  /\ log_enabled' = FALSE
  /\ language_filter' = <<>>
  /\ fieldnames' = <<>>
  /\ lines_read' = 0
  /\ row' = <<>>
  /\ mis_libros_set' = {}
  /\ big_rows' = <<>>
  /\ processed_count' = 0
  /\ kept_count' = 0
  /\ skipped_count' = 0
  /\ UNCHANGED <<argv, output_rows>>

(* lines 110-116: one reference row; an exception the except clause does not   *)
(* catch ends the script with its traceback                                    *)
DiffBuildRow ==
  /\ pc = "build"
  /\ lines_read < MaxSmallRows
  /\ \E values \in SmallRowKinds :
       LET r == DictRow(fieldnames, values)
           o == BuildOutcome(r)
       IN IF o \in {"added", "skipped"}
          THEN /\ row' = r
               /\ mis_libros_set' =
                    IF o = "added" THEN mis_libros_set \cup {ReferenceKey(r)}
                    ELSE mis_libros_set
               /\ lines_read' = lines_read + 1
               /\ UNCHANGED <<argv, pc, quiet_mode, log_enabled, language_filter,
                              fieldnames, big_rows, output_rows, processed_count,
                              kept_count, skipped_count, console, log_lines>>
          ELSE /\ DiffExit("crashed")
               /\ console' = Append(console, Msg(o, lines_read + 1, 0, 0))
               /\ UNCHANGED log_lines

(* lines 121-134: the reference file is exhausted; the counters, the large    *)
(* file opened with its header trimmed, the output header written            *)
DiffBuildEnd ==
  /\ pc = "build"
  /\ processed_count' = 0
  /\ kept_count' = 0
  /\ skipped_count' = 0
  /\ \E header \in BigHeaders : fieldnames' = TrimNames(header)
  /\ lines_read' = 0
  /\ output_rows' = <<>>
  /\ pc' = "filter"
  /\ UNCHANGED <<argv, quiet_mode, log_enabled, language_filter, row,
                 mis_libros_set, big_rows, console, log_lines>>

(* lines 136-162: one large-dataset row *)
DiffFilterRow ==
  /\ pc = "filter"
  /\ lines_read < MaxBigRows
  /\ \E values \in BigRowKinds :
       LET r == DictRow(fieldnames, values)
           n == processed_count + 1
           o == Outcome(r, language_filter, mis_libros_set)
           progress == Msg("Progress", n, kept_count, 0)
           warning == Msg("Warning", n, 0, 0)
           c1 == IF ~quiet_mode /\ n % PROGRESS_EVERY = 0
                 THEN LogConsole(quiet_mode, console, progress) ELSE console
           f1 == IF ~quiet_mode /\ n % PROGRESS_EVERY = 0
                 THEN LogFile(quiet_mode, log_enabled, log_lines, progress)
                 ELSE log_lines
       IN /\ row' = r
          /\ big_rows' = Append(big_rows, values)
          /\ processed_count' = n
          /\ output_rows' =
               IF Written(o) THEN Append(output_rows, WriteRow(fieldnames, r))
               ELSE output_rows
          /\ kept_count' = IF Written(o) THEN kept_count + 1 ELSE kept_count
          /\ skipped_count' =
               IF Written(o) THEN skipped_count ELSE skipped_count + 1
          /\ console' =
               IF o = "exception" THEN LogConsole(quiet_mode, c1, warning) ELSE c1
          /\ log_lines' =
               IF o = "exception"
               THEN LogFile(quiet_mode, log_enabled, f1, warning) ELSE f1
  /\ lines_read' = lines_read + 1
  /\ UNCHANGED <<argv, pc, quiet_mode, log_enabled, language_filter, fieldnames,
                 mis_libros_set>>

(* lines 164-167: the large file is exhausted; the summary, and the script    *)
(* ends                                                                       *)
DiffFilterEnd ==
  /\ pc = "filter"
  /\ LET done == Msg("Done", 0, 0, 0)
         total == Msg("Summary", processed_count, kept_count, skipped_count)
         elapsed == Msg("Elapsed", 0, 0, 0)
     IN /\ console' =
             LogConsole(quiet_mode,
               LogConsole(quiet_mode, LogConsole(quiet_mode, console, done), total),
               elapsed)
        /\ log_lines' =
             LogFile(quiet_mode, log_enabled,
               LogFile(quiet_mode, log_enabled,
                 LogFile(quiet_mode, log_enabled, log_lines, done), total),
               elapsed)
  /\ DiffExit("done")

(* lines 51-53: signal_handler prints and exits with status 0 *)
DiffInterrupt ==
  /\ pc \in {"start", "build", "filter"}
  /\ console' = Append(console, Msg("Interrupted", 0, 0, 0))
  /\ DiffExit("exited")
  /\ UNCHANGED log_lines


(* ================================================ generate-magnets.py === *)
BATCH_SIZE == 400
DELAY == 2
BATCH_DELAY == 5
LONG_SLEEP_EVERY == 10

DEFAULT_TRACKERS ==
  << <<"h", "t", "t", "p", ":", "/", "/", "t", "r", "a", "c", "k", "e", "r", ".", "o", "p", "e", "n", "b", "i", "t", "t", "o", "r", "r", "e", "n", "t", ".", "c", "o", "m", ":", "8", "0", "/", "a", "n", "n", "o", "u", "n", "c", "e">>,
     <<"u", "d", "p", ":", "/", "/", "t", "r", "a", "c", "k", "e", "r", ".", "o", "p", "e", "n", "b", "i", "t", "t", "o", "r", "r", "e", "n", "t", ".", "c", "o", "m", ":", "6", "9", "6", "9", "/", "a", "n", "n", "o", "u", "n", "c", "e">>,
     <<"u", "d", "p", ":", "/", "/", "t", "r", "a", "c", "k", "e", "r", ".", "t", "o", "r", "r", "e", "n", "t", ".", "e", "u", ".", "o", "r", "g", ":", "4", "5", "1">>,
     <<"u", "d", "p", ":", "/", "/", "o", "p", "e", "n", ".", "d", "e", "m", "o", "n", "i", "i", ".", "c", "o", "m", ":", "1", "3", "3", "7">>,
     <<"u", "d", "p", ":", "/", "/", "t", "r", "a", "c", "k", "e", "r", ".", "o", "p", "e", "n", "t", "r", "a", "c", "k", "r", ".", "o", "r", "g", ":", "1", "3", "3", "7", "/", "a", "n", "n", "o", "u", "n", "c", "e">>,
     <<"u", "d", "p", ":", "/", "/", "t", "r", "a", "c", "k", "e", "r", ".", "c", "y", "b", "e", "r", "i", "a", ".", "i", "s", ":", "6", "9", "6", "9", "/", "a", "n", "n", "o", "u", "n", "c", "e">> >>

(* str(x) *)
Str(x) == IF x = None THEN <<"N", "o", "n", "e">> ELSE x

(* a or b, for values that are None or str *)
Or(a, b) == IF a # None /\ a # <<>> THEN a ELSE b

RECURSIVE Flatten(_)
Flatten(ss) == IF ss = <<>> THEN <<>> ELSE Head(ss) \o Flatten(Tail(ss))

(* normalize("NFKD", s).encode("ASCII", "ignore").decode(): an accented       *)
(* letter decomposes into its base letter and a combining mark, which is      *)
(* dropped with every other character outside ASCII                           *)
AsciiFoldChar(c) ==
  CASE c \in {"á", "à", "ä"} -> <<"a">> [] c \in {"é", "è"} -> <<"e">>
    [] c = "í" -> <<"i">> [] c \in {"ó", "ö"} -> <<"o">>
    [] c \in {"ú", "ü"} -> <<"u">> [] c = "ñ" -> <<"n">>
    [] c = "Á" -> <<"A">> [] c = "É" -> <<"E">> [] c = "Ñ" -> <<"N">>
    [] c \in {"€", "¿", "¡"} -> <<>>
    [] OTHER -> <<c>>
AsciiFold(s) == Flatten([i \in 1..Len(s) |-> AsciiFoldChar(s[i])])

(* urllib.parse.quote_plus on the characters tracker URLs are made of *)
QuotePlusChar(c) ==
  CASE c = ":" -> <<"%", "3", "A">> [] c = "/" -> <<"%", "2", "F">> [] c = " " -> <<"+">>
    [] OTHER -> <<c>>
quote_plus(s) == Flatten([i \in 1..Len(s) |-> QuotePlusChar(s[i])])

(* sanitize_and_encode(row, enlace): the magnet URI, as its three parts *)
sanitize_and_encode(r, enlace) ==
  LET title == AsciiFold(Str(Or(Get(r, <<"T", "í", "t", "u", "l", "o">>, None),
                               Or(Get(r, <<"T", "i", "t", "u", "l", "o">>, None), Get(r, <<"t", "i", "t", "u", "l", "o">>, <<>>)))))
      epl_id == Or(Get(r, <<"E", "P", "L", " ", "I", "d">>, None),
                  Or(Get(r, <<"I", "d">>, None),
                     Or(Get(r, <<"I", "D">>, None), Or(Get(r, <<"e", "p", "l", "_", "i", "d">>, None), <<"N", "A">>))))
      epl_revision == Get(r, <<"R", "e", "v", "i", "s", "i", "ó", "n">>, None)
      dn == strip(<<"E", "P", "L", "_", "[">> \o Str(epl_id) \o <<"]", "_">> \o title \o <<"_", "(", "r">>
                  \o Str(epl_revision) \o <<")">>)
  IN [xt |-> <<"u", "r", "n", ":", "b", "t", "i", "h", ":">> \o enlace,
      dn |-> dn,
      tr |-> [i \in 1..Len(DEFAULT_TRACKERS) |-> quote_plus(DEFAULT_TRACKERS[i])]]

(* languages = args.languages.split(",") if args.languages else None; the      *)
(* empty list stands for None                                                  *)
Languages(arg) == IF arg # None /\ arg # <<>> THEN split(arg, ",") ELSE <<>>

(* read_csv keeps the row; row.get("Idioma", "").lower() of None raises *)
RowRaises(r, languages) == languages # <<>> /\ Get(r, <<"I", "d", "i", "o", "m", "a">>, <<>>) = None
RowMatches(r, languages) ==
  \/ languages = <<>>
  \/ \E i \in 1..Len(languages) :
       Contains(lower(Get(r, <<"I", "d", "i", "o", "m", "a">>, <<>>)), lower(languages[i]))

RECURSIVE KeepMatching(_, _)
KeepMatching(rs, languages) ==
  IF rs = <<>> THEN <<>>
  ELSE IF RowMatches(Head(rs), languages)
       THEN <<Head(rs)>> \o KeepMatching(Tail(rs), languages)
       ELSE KeepMatching(Tail(rs), languages)

(* read_csv(input_csv, languages): the rows kept, in file order *)
read_csv(names, lines, languages) ==
  KeepMatching([i \in 1..Len(lines) |-> DictRow(names, lines[i])], languages)

(* enlaces = [e.strip() for e in enlaces if e.strip()] *)
RECURSIVE NonEmptyStripped(_)
NonEmptyStripped(es) ==
  IF es = <<>> THEN <<>>
  ELSE IF strip(Head(es)) # <<>>
       THEN <<strip(Head(es))>> \o NonEmptyStripped(Tail(es))
       ELSE NonEmptyStripped(Tail(es))

Enlaces(r) == NonEmptyStripped(split(Str(Get(r, <<"E", "n", "l", "a", "c", "e", "(", "s", ")">>, <<>>)), ","))

(* main, lines 218-225: the magnets of the rows, row by row, hash by hash *)
RECURSIVE Magnets(_)
Magnets(rs) ==
  IF rs = <<>> THEN <<>>
  ELSE LET enlaces == Enlaces(Head(rs))
       IN [i \in 1..Len(enlaces) |-> sanitize_and_encode(Head(rs), enlaces[i])]
          \o Magnets(Tail(rs))

(* the body compared by its first two characters *)
LoginFailedLoose(text) == text \notin {"Ok.", "Ok"}

(* resp.text != "Ok." *)
LoginFailed(text) == text # "Ok."

(* magnets[i:i + batch_size], i counted from 0 *)
Batch(ms, i, size) ==
  SubSeq(ms, i + 1, IF i + size < Len(ms) THEN i + size ELSE Len(ms))

(* the flag never read *)
StopNever(flag) == FALSE

(* if stop_requested: break *)
StopNow(flag) == flag

(* the batch ordinal counted from 0 *)
LongSleepDueFromZero(i, size) == (i \div size) % LONG_SLEEP_EVERY = 0

(* (i // batch_size + 1) % 10 == 0 *)
LongSleepDue(i, size) == ((i \div size) + 1) % LONG_SLEEP_EVERY = 0

(* ------------------------------------------------------------- inputs --- *)
(* args.languages *)
LanguageArgs ==
  { None, <<"E", "s", "p", "a", "ñ", "o", "l">>, <<"e", "s", "p", "a", "n", "o", "l">>, <<"e", "s", "p", "a", "ñ", "o", "l", ",", "I", "n", "g", "l", "é", "s">>, <<"E", "s", "p", "a", "n", "o", "l", ",", " ", "i", "n", "g", "l", "e", "s">> }

(* args: mode, languages, whether output_file is given, batch_size *)
MagnetArgs ==
  [mode : {"text"}, languages : LanguageArgs, output_file : BOOLEAN,
   batch_size : {BATCH_SIZE}]
  \cup
  [mode : {"api"}, languages : LanguageArgs, output_file : {FALSE},
   batch_size : {2, BATCH_SIZE}]

(* the header line of the input file, and data lines of it *)
MagnetHeaders ==
  { << <<"E", "P", "L", " ", "I", "d">>, <<"T", "í", "t", "u", "l", "o">>, <<"R", "e", "v", "i", "s", "i", "ó", "n">>, <<"I", "d", "i", "o", "m", "a">>, <<"E", "n", "l", "a", "c", "e", "(", "s", ")">> >>,
    << <<"I", "d">>, <<"T", "i", "t", "u", "l", "o">>, <<"R", "e", "v", "i", "s", "i", "ó", "n">>, <<"I", "d", "i", "o", "m", "a">>, <<"E", "n", "l", "a", "c", "e", "(", "s", ")">> >> }
MagnetRowKinds ==
  { << <<"4", "2">>, <<"A", "ñ", "o">>, <<"2">>, <<"E", "s", "p", "a", "ñ", "o", "l">>, <<"h", "1", ",", " ", "h", "2", ",", ",", "h", "3">> >>,
    << <<"7">>, <<"Ñ", "u">>, <<"1">>, <<"I", "n", "g", "l", "é", "s">>, <<" ", "g", "1", " ", ",">> >>,
    << <<>>, <<"T">>, <<"1">>, <<"F", "r", "a", "n", "c", "é", "s">>, <<>> >>,
    << <<"8">>, <<"T">>, <<"3">>, <<"e", "s", "p", "a", "ñ", "o", "l">>, <<"k", "1">> >>,
    << <<"9">>, <<"T">>, <<"1">>, <<"E", "s", "p", "a", "ñ", "o", "l">> >>,
    << <<"9">>, <<"T">>, <<"1">> >> }

BoundedSeq(S, n) == UNION {[1..k -> S] : k \in 0..n}

(* resp.text of the login request; NoResponse before there is one *)
LoginBodies == {"Ok.", "Fails.", "ok.", "Ok", ""}
NoResponse == "<no response>"

(* -------------------------------------------------------------- state --- *)
VARIABLES
  args,             \* the parsed command line
  input_header,     \* the input file's header line
  input_csv,        \* the input file's data lines
  mpc,              \* main, login, check, post, sleep, done, exited, crashed
  rows,
  magnets,
  output_text,      \* the lines of the output file
  info,             \* what logging recorded
  stop_requested,
  resp_text,        \* the login response's body
  i,                \* the batch loop's index
  sent,
  requests,         \* the bodies posted to torrents/add, in order
  sleeps,           \* the time.sleep calls, in order
  exit_code

magvars ==
  <<args, input_header, input_csv, mpc, rows, magnets, output_text, info,
    stop_requested, resp_text, i, sent, requests, sleeps, exit_code>>

vars == <<diffvars, magvars>>

Info(kind, a, b) == [kind |-> kind, a |-> a, b |-> b]

MagnetFresh ==
  /\ rows = <<>>
  /\ magnets = <<>>
  /\ output_text = <<>>
  /\ info = <<>>
  /\ stop_requested = FALSE
  /\ resp_text = NoResponse
  /\ i = 0
  /\ sent = 0
  /\ requests = <<>>
  /\ sleeps = <<>>
  /\ exit_code = 0

MagnetInit ==
  /\ args \in MagnetArgs
  /\ input_header \in MagnetHeaders
  /\ input_csv \in BoundedSeq(MagnetRowKinds, MaxCsvRows)
  /\ mpc = "main"
  /\ MagnetFresh

(* the sizes of the magnet list and of the batch: the small ones, and the      *)
(* default batch size on a list of a thousand                                 *)
PushSizes == ((0..MaxMagnets) \X (0..MaxBatch)) \cup {<<ExampleTotal, BATCH_SIZE>>}

(* push_to_qbittorrent entered with a list of n magnets, the j-th URI written j *)
PushInit ==
  /\ \E p \in PushSizes :
       /\ magnets = [j \in 1..p[1] |-> j]
       /\ args = [mode |-> "api", languages |-> None, output_file |-> FALSE,
                  batch_size |-> p[2]]
  /\ input_header = <<>>
  /\ input_csv = <<>>
  /\ mpc = "login"
  /\ rows = <<>>
  /\ output_text = <<>>
  /\ info = <<>>
  /\ stop_requested = FALSE
  /\ resp_text = NoResponse
  /\ i = 0
  /\ sent = 0
  /\ requests = <<>>
  /\ sleeps = <<>>
  /\ exit_code = 0

(* write_text_output(magnets, output_file, log_file): one line per magnet *)
write_text_output(ms) == ms

(* main, lines 213-245: the rows read, the magnets built; text mode writes     *)
(* them, API mode calls push_to_qbittorrent                                    *)
Main ==
  /\ mpc = "main"
  /\ LET languages == Languages(args.languages)
         all == [k \in 1..Len(input_csv) |-> DictRow(input_header, input_csv[k])]
         kept == read_csv(input_header, input_csv, languages)
         ms == Magnets(kept)
         counted == Append(info, Info("Magnets", Len(kept), Len(ms)))
     IN IF \E k \in 1..Len(all) : RowRaises(all[k], languages)
        THEN /\ mpc' = "crashed"
             /\ exit_code' = 1
             /\ UNCHANGED <<rows, magnets, output_text, info>>
        ELSE /\ rows' = kept
             /\ magnets' = ms
             /\ IF args.mode = "text"
                THEN IF ~args.output_file
                     THEN /\ info' = Append(counted, Info("Output file required", 0, 0))
                          /\ exit_code' = 1
                          /\ mpc' = "exited"
                          /\ UNCHANGED output_text
                     ELSE /\ output_text' = write_text_output(ms)
                          /\ info' = Append(counted, Info("Wrote", Len(ms), 0))
                          /\ mpc' = "done"
                          /\ UNCHANGED exit_code
                ELSE /\ info' = counted
                     /\ mpc' = "login"
                     /\ UNCHANGED <<output_text, exit_code>>
  /\ UNCHANGED <<args, input_header, input_csv, stop_requested, resp_text, i,
                 sent, requests, sleeps>>

(* lines 51-54: handle_sigint sets the flag; the interrupted code goes on *)
handle_sigint ==
  /\ mpc \in {"main", "login", "check", "post", "sleep"}
  /\ stop_requested' = TRUE
  /\ UNCHANGED <<args, input_header, input_csv, mpc, rows, magnets, output_text,
                 info, resp_text, i, sent, requests, sleeps, exit_code>>

(* line 142: the loop is over *)
Finish(log, n) ==
  /\ info' = Append(log, Info("Finished sending", n, Len(magnets)))
  /\ mpc' = "done"

(* lines 118-131: the login, and the loop entered *)
Login ==
  /\ mpc = "login"
  /\ \E text \in LoginBodies :
       /\ resp_text' = text
       /\ IF LoginFailed(text)
          THEN /\ info' = Append(info, Info("Failed to authenticate", 0, 0))
               /\ exit_code' = 1
               /\ mpc' = "exited"
               /\ UNCHANGED <<i, sent>>
          ELSE /\ i' = 0
               /\ sent' = 0
               /\ LET connected ==
                        Append(info, Info("Connected", Len(magnets), args.batch_size))
                  IN IF args.batch_size = 0
                     THEN /\ info' = connected
                          /\ exit_code' = 1
                          /\ mpc' = "crashed"
                     ELSE /\ UNCHANGED exit_code
                          /\ IF 0 < Len(magnets)
                             THEN info' = connected /\ mpc' = "check"
                             ELSE Finish(connected, 0)
  /\ UNCHANGED <<args, input_header, input_csv, rows, magnets, output_text,
                 stop_requested, requests, sleeps>>

(* session.post raises: nothing catches it *)
RequestError ==
  /\ mpc \in {"login", "post"}
  /\ mpc' = "crashed"
  /\ exit_code' = 1
  /\ UNCHANGED <<args, input_header, input_csv, rows, magnets, output_text, info,
                 stop_requested, resp_text, i, sent, requests, sleeps>>

(* lines 132-133: the flag is read before the batch *)
LoopCheck ==
  /\ mpc = "check"
  /\ IF StopNow(stop_requested)
     THEN Finish(info, sent) /\ UNCHANGED sent
     ELSE mpc' = "post" /\ UNCHANGED <<info, sent>>
  /\ UNCHANGED <<args, input_header, input_csv, rows, magnets, output_text,
                 stop_requested, resp_text, i, requests, sleeps, exit_code>>

(* lines 134-137: the batch is posted *)
PostBatch ==
  /\ mpc = "post"
  /\ LET batch == Batch(magnets, i, args.batch_size)
     IN /\ requests' = Append(requests, batch)
        /\ sent' = sent + Len(batch)
        /\ info' = Append(info, Info("Sent", sent + Len(batch), Len(magnets)))
  /\ mpc' = "sleep"
  /\ UNCHANGED <<args, input_header, input_csv, rows, magnets, output_text,
                 stop_requested, resp_text, i, sleeps, exit_code>>

(* the for statement takes the next index, or the loop is over *)
NextBatch ==
  /\ i' = i + args.batch_size
  /\ IF i + args.batch_size < Len(magnets)
     THEN mpc' = "check" /\ UNCHANGED <<info, sent>>
     ELSE Finish(info, sent) /\ UNCHANGED sent

(* lines 138-140: time.sleep(delay), and time.sleep(batch_delay) after every   *)
(* tenth batch                                                                *)
Sleep ==
  /\ mpc = "sleep"
  /\ sleeps' = IF LongSleepDue(i, args.batch_size)
               THEN Append(Append(sleeps, DELAY), BATCH_DELAY)
               ELSE Append(sleeps, DELAY)
  /\ NextBatch
  /\ UNCHANGED <<args, input_header, input_csv, rows, magnets, output_text,
                 stop_requested, resp_text, requests, exit_code>>

(* --------------------------------------------------- specifications --- *)
(* a tool that is not run *)
DiffIdle ==
  /\ argv = <<>>
  /\ pc = "idle"
  /\ DiffNoMemory
  /\ output_rows = <<>>
  /\ console = <<>>
  /\ log_lines = <<>>

MagnetIdle ==
  /\ args = [mode |-> "text", languages |-> None, output_file |-> FALSE,
             batch_size |-> BATCH_SIZE]
  /\ input_header = <<>>
  /\ input_csv = <<>>
  /\ mpc = "idle"
  /\ MagnetFresh

(* the differential filter is run *)
InitDiff == DiffInit /\ MagnetIdle
DiffNext ==
  \/ DiffStart /\ UNCHANGED magvars
  \/ DiffBuildRow /\ UNCHANGED magvars
  \/ DiffBuildEnd /\ UNCHANGED magvars
  \/ DiffFilterRow /\ UNCHANGED magvars
  \/ DiffFilterEnd /\ UNCHANGED magvars
  \/ DiffInterrupt /\ UNCHANGED magvars
SpecDiff == InitDiff /\ [][DiffNext]_vars

(* the magnet generator is run *)
InitMagnet == DiffIdle /\ MagnetInit
MagnetNext ==
  \/ Main /\ UNCHANGED diffvars
  \/ handle_sigint /\ UNCHANGED diffvars
  \/ Login /\ UNCHANGED diffvars
  \/ RequestError /\ UNCHANGED diffvars
  \/ LoopCheck /\ UNCHANGED diffvars
  \/ PostBatch /\ UNCHANGED diffvars
  \/ Sleep /\ UNCHANGED diffvars
SpecMagnet == InitMagnet /\ [][MagnetNext]_vars

(* push_to_qbittorrent is run *)
InitPush == DiffIdle /\ PushInit
PushNext ==
  \/ handle_sigint /\ UNCHANGED diffvars
  \/ Login /\ UNCHANGED diffvars
  \/ RequestError /\ UNCHANGED diffvars
  \/ LoopCheck /\ UNCHANGED diffvars
  \/ PostBatch /\ UNCHANGED diffvars
  \/ Sleep /\ UNCHANGED diffvars
SpecPush == InitPush /\ [][PushNext]_vars

(* either tool is run *)
Init == InitDiff \/ InitMagnet
Next == DiffNext \/ MagnetNext
Spec == Init /\ [][Next]_vars

(* ================================================================ claims *)
(* ---- the differential filter, read off the data lines and the header ---- *)
HasColumn(name) == \E k \in 1..Len(fieldnames) : fieldnames[k] = name

(* the value a data line has in a column: None when the line is too short *)
Field(values, name) ==
  LET k == CHOOSE j \in 1..Len(fieldnames) : fieldnames[j] = name
  IN IF k <= Len(values) THEN values[k] ELSE None

(* the data line, column by column, as it is written out *)
Columns(values) ==
  [k \in 1..Len(fieldnames) |-> IF k <= Len(values) THEN values[k] ELSE <<>>]

(* the language of a data line: empty without the column, None on a short line *)
IdiomaText(values) ==
  IF HasColumn(<<"I", "d", "i", "o", "m", "a">>) THEN Field(values, <<"I", "d", "i", "o", "m", "a">>) ELSE <<>>

PassesLanguage(values) ==
  \/ language_filter = <<>>
  \/ /\ IdiomaText(values) # None
     /\ \E k \in 1..Len(language_filter) :
          language_filter[k] = strip(IdiomaText(values))

KeyKnown(values) ==
  /\ HasColumn(<<"E", "P", "L", " ", "I", "d">>) /\ Field(values, <<"E", "P", "L", " ", "I", "d">>) # None
  /\ IntOk(Field(values, <<"E", "P", "L", " ", "I", "d">>))
  /\ HasColumn(<<"R", "e", "v", "i", "s", "i", "ó", "n">>) /\ Field(values, <<"R", "e", "v", "i", "s", "i", "ó", "n">>) # None

ClaimKey(values) ==
  <<10000000 + IntValue(Field(values, <<"E", "P", "L", " ", "I", "d">>)), strip(Field(values, <<"R", "e", "v", "i", "s", "i", "ó", "n">>))>>

ReachesTest(values) == PassesLanguage(values) /\ KeyKnown(values)

(* evaluating the row raises: a None language under a filter, or, once the     *)
(* language passes, an identifier that is no integer or a missing value        *)
Raises(values) ==
  \/ language_filter # <<>> /\ IdiomaText(values) = None
  \/ PassesLanguage(values) /\ ~KeyKnown(values)

RECURSIVE AtIndices(_, _, _)
AtIndices(seq, S, k) ==
  IF k > Len(seq) THEN <<>>
  ELSE (IF k \in S THEN <<seq[k]>> ELSE <<>>) \o AtIndices(seq, S, k + 1)

Last(seq) == seq[Len(seq)]

(* a step of the filter loop that has processed one more row *)
FilterStepTaken ==
  pc = "filter" /\ pc' = "filter" /\ processed_count' = processed_count + 1

RowWritten ==
  /\ output_rows' = Append(output_rows, Columns(Last(big_rows')))
  /\ kept_count' = kept_count + 1
  /\ skipped_count' = skipped_count

RowSkipped ==
  /\ output_rows' = output_rows
  /\ kept_count' = kept_count
  /\ skipped_count' = skipped_count + 1

(* C1: while the large file is filtered, the output rows are the input rows at *)
(* some set of positions, in input order and with every column of the trimmed  *)
(* header; a row that reaches the membership test is among them exactly when   *)
(* (10,000,000 + int(EPL Id), trimmed Revisión) is not in the reference set.   *)
C1_Differential ==
  pc = "filter" =>
    \E S \in SUBSET (1..Len(big_rows)) :
      /\ output_rows =
           AtIndices([k \in 1..Len(big_rows) |-> Columns(big_rows[k])], S, 1)
      /\ \A k \in 1..Len(big_rows) :
           ReachesTest(big_rows[k]) =>
             (k \in S <=> ClaimKey(big_rows[k]) \notin mis_libros_set)

C1_Witness ==
  /\ pc = "filter"
  /\ \E j, k \in 1..Len(big_rows) :
       /\ ReachesTest(big_rows[j]) /\ ClaimKey(big_rows[j]) \in mis_libros_set
       /\ ReachesTest(big_rows[k]) /\ ClaimKey(big_rows[k]) \notin mis_libros_set
       /\ j < k
  /\ Len(output_rows) = 1
  /\ Len(big_rows) = 2

(* C2, as amended: a row whose evaluation raises is written to the output and  *)
(* counted as kept, never skipped, in every mode; its warning is printed, and  *)
(* with -l appended to the log file, unless the run is quiet: a quiet run      *)
(* records no warning.                                                         *)
C2_KeptWarnedUnlessQuiet ==
  [][(FilterStepTaken /\ Raises(Last(big_rows'))) =>
       /\ RowWritten
       /\ console' = IF quiet_mode THEN console
                     ELSE Append(console, Msg("Warning", processed_count', 0, 0))
       /\ log_lines' = IF quiet_mode \/ ~log_enabled THEN log_lines
                       ELSE Append(log_lines, Msg("Warning", processed_count', 0, 0))
    ]_vars

C2_Witness ==
  /\ pc = "filter"
  /\ quiet_mode
  /\ big_rows # <<>> /\ Raises(Last(big_rows))
  /\ ~IntOk(Field(Last(big_rows), <<"E", "P", "L", " ", "I", "d">>))
  /\ output_rows # <<>> /\ Last(output_rows) = Columns(Last(big_rows))
  /\ kept_count = 1
  /\ console = <<>>

(* C2, as claimed: a row whose evaluation raises is written, counted as kept,  *)
(* and a warning for it is recorded, in every mode, quiet mode included.       *)
C2_WarnedInEveryMode ==
  [][(FilterStepTaken /\ Raises(Last(big_rows'))) =>
       /\ RowWritten
       /\ console' = Append(console, Msg("Warning", processed_count', 0, 0))
    ]_vars

(* C3, as claimed: a reference row whose '#epg_id' is not numeric ("inf" and   *)
(* "nan" included) or whose '#version' is missing adds no key, and no          *)
(* exception leaves the build loop.                                            *)
C3_BadRow(r) ==
  \/ <<"#", "e", "p", "g", "_", "i", "d">> \notin DOMAIN r
  \/ r[<<"#", "e", "p", "g", "_", "i", "d">>] = None
  \/ ~FloatIsDecimal(r[<<"#", "e", "p", "g", "_", "i", "d">>])
  \/ <<"#", "v", "e", "r", "s", "i", "o", "n">> \notin DOMAIN r
  \/ r[<<"#", "v", "e", "r", "s", "i", "o", "n">>] = None

C3_BadRowsSkipped ==
  [][pc = "build" =>
       /\ pc' # "crashed"
       /\ (lines_read' = lines_read + 1 /\ C3_BadRow(row')) =>
            mis_libros_set' = mis_libros_set
    ]_vars

(* the command line names no --languages=<list> *)
NoAllowListGiven ==
  \A k \in 1..Len(argv) :
    ~(startswith(argv[k], <<"-", "-", "l", "a", "n", "g", "u", "a", "g", "e", "s", "=">>) /\ Len(argv[k]) > Len(<<"-", "-", "l", "a", "n", "g", "u", "a", "g", "e", "s", "=">>))

C8_SummaryAlwaysPrinted ==
  [][/\ (pc = "filter" /\ pc' = "done") =>
          /\ Len(console') > 0
          /\ \E k \in 1..Len(console') :
               /\ console'[k] =
                    Msg("Summary", processed_count, kept_count, skipped_count)
               /\ \A m \in 1..Len(console') :
                    console'[m].kind = "Summary" => m = k
     /\ FilterStepTaken =>
          ((\E k \in 1..Len(console') :
              k > Len(console) /\ console'[k].kind = "Progress")
             <=> (~quiet_mode /\ processed_count' % 1000 = 0))
    ]_vars

(* ---- the magnet generator ---- *)
(* the non-empty trimmed entries of the row's 'Enlace(s)' field; a row that    *)
(* has no such value has no entries                                            *)
ClaimEntries(r) ==
  IF <<"E", "n", "l", "a", "c", "e", "(", "s", ")">> \notin DOMAIN r \/ r[<<"E", "n", "l", "a", "c", "e", "(", "s", ")">>] = None THEN <<>>
  ELSE LET parts == split(r[<<"E", "n", "l", "a", "c", "e", "(", "s", ")">>], ",")
           S == {k \in 1..Len(parts) : strip(parts[k]) # <<>>}
       IN AtIndices([k \in 1..Len(parts) |-> strip(parts[k])], S, 1)

RECURSIVE ClaimHashes(_)
ClaimHashes(rs) ==
  IF rs = <<>> THEN <<>> ELSE ClaimEntries(Head(rs)) \o ClaimHashes(Tail(rs))

(* C9, as claimed: a text-mode run writes one magnet per non-empty trimmed     *)
(* entry of the 'Enlace(s)' field of each row that passed the language filter, *)
(* one per line, by row and then by position in the row, and reports as many   *)
(* magnets as it wrote lines.                                                  *)
C9_OnePerEntry ==
  (mpc = "done" /\ args.mode = "text") =>
    /\ Len(output_text) = Len(ClaimHashes(rows))
    /\ \A k \in 1..Len(output_text) :
         output_text[k].xt = <<"u", "r", "n", ":", "b", "t", "i", "h", ":">> \o ClaimHashes(rows)[k]
    /\ info[Len(info)] = Info("Wrote", Len(output_text), 0)

(* the list given as --languages=<list> to the differential filter *)
GivenList ==
  LET k == CHOOSE j \in 1..Len(argv) : startswith(argv[j], <<"-", "-", "l", "a", "n", "g", "u", "a", "g", "e", "s", "=">>)
  IN split(AfterFirst(argv[k], "="), ",")

(* the differential filter's allow-list holds the canonical name of every      *)
(* entry given that is a synonym of the table, or a canonical name itself      *)
DiffCanonicalizes ==
  (pc \in {"build", "filter"} /\ ~NoAllowListGiven) =>
    /\ Len(language_filter) = Len(GivenList)
    /\ \A k \in 1..Len(GivenList) : \A p \in LANGUAGE_MAP :
         strip(GivenList[k]) \in {p[1], p[2]} => language_filter[k] = p[2]

(* the magnet generator has read its rows *)
RowsRead == mpc # "idle" /\ info # <<>>

InputRows == [k \in 1..Len(input_csv) |-> DictRow(input_header, input_csv[k])]

(* C10, as amended: the differential filter canonicalizes the names given in   *)
(* --languages=<list> through the synonym table, so every synonym decides as   *)
(* its canonical name does. The magnet generator does not use the table: it    *)
(* keeps a row exactly when some --languages entry, lower-cased, is part of    *)
(* the row's lower-cased language, so an entry decides as the canonical name   *)
(* only if it differs from it by case alone.                                   *)
C10_OnlyTheFilterCanonicalizes ==
  /\ DiffCanonicalizes
  /\ RowsRead =>
       LET given == Languages(args.languages)
           S == {k \in 1..Len(InputRows) :
                   \/ given = <<>>
                   \/ \E t \in Range(given) :
                        Contains(lower(Get(InputRows[k], <<"I", "d", "i", "o", "m", "a">>, <<>>)), lower(t))}
       IN rows = AtIndices(InputRows, S, 1)

C10_Witness ==
  /\ pc = "filter"
  /\ argv = << <<"-", "-", "l", "a", "n", "g", "u", "a", "g", "e", "s", "=", "e", "s", "p", "a", "n", "o", "l", ",", " ", "F", "r", "a", "n", "c", "e", "s", " ">> >>
  /\ language_filter = << <<"E", "s", "p", "a", "ñ", "o", "l">>, <<"F", "r", "a", "n", "c", "é", "s">> >>
  /\ big_rows # <<>>
  /\ IdiomaText(Last(big_rows)) = <<"F", "r", "a", "n", "c", "é", "s">>
  /\ Len(output_rows) = Len(big_rows)

(* C10, as claimed: both tools canonicalize the names given in --languages     *)
(* through the synonym table: for every synonym and every row each tool        *)
(* decides as it does for the canonical name.                                  *)
C10_BothCanonicalize ==
  /\ DiffCanonicalizes
  /\ RowsRead =>
       LET given == Languages(args.languages)
       IN rows = read_csv(input_header, input_csv,
                          [k \in 1..Len(given) |-> Canonical(given[k])])

(* ---- push_to_qbittorrent ---- *)
CeilDiv(n, b) == (n + b - 1) \div b

(* the k-th batch: magnets (k-1)*B .. min(k*B, N)-1, counted from 0 *)
ExpectedBatch(k) ==
  LET B == args.batch_size
      N == Len(magnets)
      hi == IF k * B < N THEN k * B ELSE N
  IN [j \in 1..(hi - (k - 1) * B) |-> magnets[(k - 1) * B + j]]

RECURSIVE ExpectedSleeps(_)
ExpectedSleeps(k) ==
  IF k = 0 THEN <<>>
  ELSE ExpectedSleeps(k - 1) \o <<DELAY>>
         \o (IF k % 10 = 0 THEN <<BATCH_DELAY>> ELSE <<>>)

(* C5: an API-mode run that logs in and ends with no interrupt and no request  *)
(* error has posted ceil(N/B) batches, the k-th holding magnets (k-1)*B to     *)
(* min(k*B, N)-1, so every magnet once and in order, with one sleep of delay   *)
(* after each and one more of batch_delay after every tenth; with 1000 magnets *)
(* and B = 400 that is 3 requests, 3 short sleeps, no long one.                *)
C5_Batches ==
  (mpc = "done" /\ args.mode = "api" /\ ~stop_requested) =>
    /\ Len(requests) = CeilDiv(Len(magnets), args.batch_size)
    /\ \A k \in 1..Len(requests) : requests[k] = ExpectedBatch(k)
    /\ Flatten(requests) = magnets
    /\ sleeps = ExpectedSleeps(Len(requests))
    /\ (Len(magnets) = 1000 /\ args.batch_size = 400) =>
         Len(requests) = 3 /\ sleeps = <<DELAY, DELAY, DELAY>>

C5_Witness ==
  /\ mpc = "done"
  /\ ~stop_requested
  /\ args.batch_size = 1
  /\ Len(magnets) = 11
  /\ Len(requests) = 11
  /\ Len(sleeps) = 12
  /\ sleeps[11] = BATCH_DELAY

(* C6: a batch is posted only after a login answered exactly "Ok."; any other  *)
(* answer ends the run with a non-zero exit status and nothing posted.         *)
C6_LoginGate ==
  /\ requests # <<>> => resp_text = "Ok."
  /\ mpc \in {"check", "post", "sleep"} => resp_text = "Ok."
  /\ resp_text \notin {NoResponse, "Ok."} =>
       mpc = "exited" /\ exit_code # 0 /\ requests = <<>>

C6_Witness ==
  /\ mpc = "exited"
  /\ resp_text = "Ok"
  /\ exit_code = 1
  /\ magnets # <<>>
  /\ requests = <<>>

(* C7: stop_requested, once set, stays set; it is read before each batch: a    *)
(* batch is posted only after a check that found it unset, a check that finds  *)
(* it set ends the loop with nothing posted, nothing is posted after the loop  *)
(* has ended, and what has been posted is always a prefix of the batches.      *)
C7_Cancellation ==
  /\ [](\A k \in 1..Len(requests) : requests[k] = ExpectedBatch(k))
  /\ [][/\ stop_requested => stop_requested'
        /\ (mpc = "check" /\ stop_requested) =>
             (mpc' \in {"check", "done"} /\ requests' = requests)
        /\ (mpc' = "post" /\ mpc # "post") => (mpc = "check" /\ ~stop_requested)
        /\ requests' # requests =>
             (mpc = "post" /\ Len(requests') = Len(requests) + 1)
        /\ mpc = "done" => (mpc' = "done" /\ requests' = requests)
       ]_vars

C7_Witness ==
  /\ mpc = "done"
  /\ stop_requested
  /\ Len(requests) = 2
  /\ CeilDiv(Len(magnets), args.batch_size) = 4

====
